---- MODULE Spec2Model ----
(***************************************************************************)
(* Model of the bookkeeping service of src/main.rs: the transaction        *)
(* vector behind a tokio RwLock, the six actix handlers, and               *)
(* AppState::persist (snapshot under a read lock, write of                 *)
(* "transactions.json.tmp", rename over "transactions.json").              *)
(***************************************************************************)
EXTENDS Integers, Sequences, FiniteSets, TLC

\* ------------------------------------------------------------------ bounds
MaxOps == 2         \* requests in one run; each has its own handler, all may overlap
MaxFaults == 1      \* injected I/O errors (write or rename) in one run

Handlers == 1..MaxOps
\* Uuid 1 and the last one are the ones of the stored records, the others are results
\* of Uuid::new_v4
Uuids == 1..(MaxOps + 2)
NoHandler == 0

\* ------------------------------------------------------------------ values
\* A String is a sequence of one-character strings; Option<T> is <<>> or <<v>>.
SP == " "
None == <<>>
Some(v) == <<v>>

IsWhitespace(c) == c = SP

RECURSIVE TrimStart(_)
TrimStart(s) ==
    IF s = <<>> THEN s
    ELSE IF IsWhitespace(Head(s)) THEN TrimStart(Tail(s)) ELSE s

RECURSIVE TrimEnd(_)
TrimEnd(s) ==
    IF s = <<>> THEN s
    ELSE IF IsWhitespace(s[Len(s)]) THEN TrimEnd(SubSeq(s, 1, Len(s) - 1)) ELSE s

\* str::trim
Trim(s) == TrimEnd(TrimStart(s))

\* f64: a finite value (an integer here), NaN or an infinity
Finite(v) == [class |-> "finite", val |-> v]
NaN == [class |-> "nan", val |-> 0]
Infinity == [class |-> "inf", val |-> 1]

\* f64::is_finite
is_finite(a) == a.class = "finite"

\* Uuid <-> its string form; any other path segment is not a uuid
UuidToString(u) == <<"uuid", u>>
NotAUuid == <<"not-a-uuid">>
ParseStr(s) ==
    IF Len(s) = 2 /\ s[1] = "uuid" THEN [ok |-> TRUE, val |-> s[2]]
    ELSE [ok |-> FALSE, val |-> 0]

\* struct Transaction
Transaction(i, u, it, a, ts) ==
    [id |-> i, user |-> u, item |-> it, amount |-> a, timestamp |-> ts]

\* The record found in the file at startup (when there is one)
StoredTx == Transaction(1, <<"a">>, <<"x">>, Finite(1), 3)
\* The record stored before it, in a file that holds two
OlderTx == Transaction(MaxOps + 2, <<"b">>, <<"x">>, Finite(2), 3)

\* struct CreateTransaction, struct UpdateTransaction
CreatePayload(u, it, a, ts) == [user |-> u, item |-> it, amount |-> a, timestamp |-> ts]
UpdatePayload(u, it, a, ts) == [user |-> u, item |-> it, amount |-> a, timestamp |-> ts]

\* Inputs of the requests
CreatePayloads ==
    { CreatePayload(<<SP, "b", SP>>, <<SP, "x">>, Finite(2), None),
      CreatePayload(<<"a">>, <<"y">>, Finite(-1), Some(7)),
      CreatePayload(<<SP, SP>>, <<"x">>, Finite(1), None),
      CreatePayload(<<"a">>, <<>>, Finite(1), None),
      CreatePayload(<<"a">>, <<"x">>, NaN, None) }
UpdatePayloads ==
    { UpdatePayload(None, Some(<<"y", SP>>), None, None),
      UpdatePayload(Some(<<SP, "b">>), Some(<<"y">>), Some(Finite(5)), Some(9)),
      UpdatePayload(Some(<<"b">>), Some(<<SP>>), None, None),
      UpdatePayload(None, Some(<<"y">>), Some(Infinity), Some(9)),
      UpdatePayload(Some(<<>>), Some(<<"y">>), None, None) }
NowValues == {3}
PathInputs == {UuidToString(1), UuidToString(2), NotAUuid}
SummaryInputs == {<<"a">>, <<SP, "b", SP>>}

\* ------------------------------------------------------------------ JSON
\* A file is a sequence of tokens: "[", one object per record, "]".
LBracket == <<"[">>
RBracket == <<"]">>
Hole == <<"\\0">>

AmountToJson(a) == IF is_finite(a) THEN <<"num", a.val>> ELSE <<"null">>

TxToJson(t) ==
    <<"{", UuidToString(t.id), t.user, t.item, AmountToJson(t.amount), t.timestamp>>

\* A faulty Serialize: a delta, the last record alone
SerializeLast(c) ==
    <<LBracket>> \o (IF c = <<>> THEN <<>> ELSE <<TxToJson(c[Len(c)])>>) \o <<RBracket>>

\* serde_json::to_vec_pretty(&Vec<Transaction>)
Serialize(c) == <<LBracket>> \o [i \in 1..Len(c) |-> TxToJson(c[i])] \o <<RBracket>>

IsObject(tok) ==
    /\ Len(tok) = 6
    /\ tok[1] = "{"
    /\ ParseStr(tok[2]).ok
    /\ Len(tok[5]) = 2
    /\ tok[5][1] = "num"

\* A faulty TxFromJson: user and item taken from each other's place
TxFromJsonSwapped(tok) ==
    Transaction(ParseStr(tok[2]).val, tok[4], tok[3], Finite(tok[5][2]), tok[6])

\* One object of the array, deserialized
TxFromJson(tok) ==
    Transaction(ParseStr(tok[2]).val, tok[3], tok[4], Finite(tok[5][2]), tok[6])

\* serde_json::from_slice::<Vec<Transaction>>
FromSlice(data) ==
    IF /\ Len(data) >= 2
       /\ data[1] = LBracket
       /\ data[Len(data)] = RBracket
       /\ \A i \in 2..(Len(data) - 1) : IsObject(data[i])
    THEN [ok |-> TRUE, val |-> [i \in 1..(Len(data) - 2) |-> TxFromJson(data[i + 1])]]
    ELSE [ok |-> FALSE, val |-> <<>>]

\* A path of the file system: missing, or a file with its content
Absent == [exists |-> FALSE, data |-> <<>>]
FileOf(d) == [exists |-> TRUE, data |-> d]

\* AppState::load, an io::Result: fs::read(..)? hands the read error on, a file that
\* does not parse gives the default (empty) vector, a missing file the empty vector
Load(f, readOk) ==
    IF f.exists
    THEN (IF readOk
          THEN [ok |-> TRUE,
                val |-> IF FromSlice(f.data).ok THEN FromSlice(f.data).val ELSE <<>>]
          ELSE [ok |-> FALSE, val |-> <<>>])
    ELSE [ok |-> TRUE, val |-> <<>>]

\* A faulty Main: load's error handed on with `?`, the server never starts
MainPropagating(r) == [up |-> r.ok, initial |-> r.val]

\* main's `AppState::load(STORAGE_FILE).await.unwrap_or_default()`: the server comes
\* up with what load gave, or with the empty vector when load failed
Main(r) == [up |-> TRUE, initial |-> IF r.ok THEN r.val ELSE <<>>]

\* What transactions.json can hold when the process starts
StartupFiles ==
    {Absent, FileOf(Serialize(<<StoredTx>>)), FileOf(Serialize(<<OlderTx, StoredTx>>)),
     FileOf(<<LBracket>>)}


\* ------------------------------------------------------------------ state
VARIABLES
    txs,        \* AppState.transactions: the Vec<Transaction> behind the RwLock
    writer,     \* the handler holding the write guard, or NoHandler
    readers,    \* the handlers holding a read guard
    waiters,    \* the lock's FIFO queue of handlers waiting for a guard
    pc,         \* where each handler is
    op,         \* the route each handler serves
    id,         \* the handler's parsed path id (update, delete, get)
    user,       \* user_summary's path parameter
    tx,         \* create's local tx, <<>> elsewhere
    updPayload, \* update's payload once the handler has read it, <<>> before
    snapshot,   \* persist's local snapshot
    fd,         \* where the file that fs::write opened is now: "tmp", "file", "orphan"
    wpos,       \* the offset of that open file
    perr,       \* what persist returned to the handler: "none" yet, "ok" or "err"
    result,     \* the response of the handler, once it has one
    tmp,        \* the file system's entry "transactions.json.tmp"
    file,       \* the file system's entry "transactions.json"
    uuids,      \* how many Uuids exist so far
    started,    \* how many requests were accepted
    faults,     \* how many I/O errors were injected
    file0,      \* history: the target file at startup
    hist,       \* history: the Collection after each change of it, in order
    seq,        \* history: the index in hist of the handler's own mutation, or of the
                \* Collection that a read handler saw
    order,      \* history: the seq of the mutations whose snapshot was renamed, in order
    ioErrs,     \* history: how many write or rename steps failed
    overlap     \* history: did another request run during this handler's request

lockVars == <<writer, readers, waiters>>
localVars == <<op, id, user, tx, updPayload, snapshot, fd, wpos, perr, result>>
fsVars == <<tmp, file>>
histVars == <<file0, hist, seq, order, ioErrs, overlap>>
vars == <<txs, lockVars, pc, localVars, fsVars, uuids, started, faults, histVars>>

NoResult == [status |-> "none", body |-> <<>>, count |-> 0, total |-> 0]
Response(st, b) == [status |-> st, body |-> b, count |-> 0, total |-> 0]

Active(h) == pc[h] \notin {"idle", "done"}

Init ==
    /\ file \in StartupFiles
    /\ file0 = file
    /\ tmp = Absent
    /\ \E readOk \in BOOLEAN :
         LET m == Main(Load(file, readOk)) IN
         /\ txs = m.initial
         /\ pc = [h \in Handlers |-> IF m.up THEN "idle" ELSE "down"]
    /\ writer = NoHandler
    /\ readers = {}
    /\ waiters = <<>>
    /\ op = [h \in Handlers |-> "none"]
    /\ id = [h \in Handlers |-> 0]
    /\ user = [h \in Handlers |-> <<>>]
    /\ tx = [h \in Handlers |-> <<>>]
    /\ updPayload = [h \in Handlers |-> <<>>]
    /\ snapshot = [h \in Handlers |-> <<>>]
    /\ fd = [h \in Handlers |-> "none"]
    /\ wpos = [h \in Handlers |-> 0]
    /\ perr = [h \in Handlers |-> "none"]
    /\ result = [h \in Handlers |-> NoResult]
    /\ uuids = 1
    /\ started = 0
    /\ faults = 0
    /\ hist = <<txs>>
    /\ seq = [h \in Handlers |-> 0]
    /\ order = <<>>
    /\ ioErrs = 0
    /\ overlap = [h \in Handlers |-> FALSE]

\* ------------------------------------------------------------------ RwLock
\* tokio::sync::RwLock is fair: guards are handed out in the order of the requests,
\* and a waiting writer keeps later readers out.
WantsWrite(p) == p = "wwait"

\* The pc of a handler once the guard it asked for is granted
Held(p) ==
    CASE p \in {"wreq", "wwait"} -> "wheld"
      [] p \in {"rreq", "rwait"} -> "rheld"
      [] p \in {"p_rreq", "p_rwait"} -> "p_rheld"
      [] OTHER -> p

\* The pc of a handler that has to wait for the guard it asked for
Waiting(p) ==
    CASE p = "wreq" -> "wwait"
      [] p = "rreq" -> "rwait"
      [] p = "p_rreq" -> "p_rwait"
      [] OTHER -> p

\* Hand the free lock to the head(s) of the queue
RECURSIVE Grant(_, _, _, _)
Grant(w, r, q, p) ==
    IF q = <<>> \/ w # NoHandler THEN [writer |-> w, readers |-> r, waiters |-> q]
    ELSE IF WantsWrite(p[Head(q)])
         THEN (IF r = {}
               THEN [writer |-> Head(q), readers |-> r, waiters |-> Tail(q)]
               ELSE [writer |-> w, readers |-> r, waiters |-> q])
         ELSE Grant(w, r \cup {Head(q)}, Tail(q), p)

\* Dropping handler h's guard
Unlocked(h) ==
    Grant(IF writer = h THEN NoHandler ELSE writer, readers \ {h}, waiters, pc)

\* h drops its guard and goes on at pc `next`; the handlers that get a guard by it go on too
Release(h, next) ==
    LET l == Unlocked(h) IN
    /\ writer' = l.writer
    /\ readers' = l.readers
    /\ waiters' = l.waiters
    /\ pc' = [g \in Handlers |->
                IF g = h THEN next
                ELSE IF (g = l.writer \/ g \in l.readers) THEN Held(pc[g])
                ELSE pc[g]]

\* A faulty WriteAvailable: the readers that hold a guard are not looked at
WriteAvailableDespiteReaders == writer = NoHandler /\ waiters = <<>>

\* write(): the guard is free to take when nobody holds one and nobody waits
WriteAvailable == writer = NoHandler /\ readers = {} /\ waiters = <<>>

\* read(): the guard is free to take when no writer holds one and no writer waits
ReadAvailable ==
    /\ writer = NoHandler
    /\ \A i \in 1..Len(waiters) : ~WantsWrite(pc[waiters[i]])

\* transactions.write().await / transactions.read().await: the guard, or a place in the queue
LockAcquire(h) ==
    /\ pc[h] \in {"wreq", "rreq", "p_rreq"}
    /\ IF pc[h] = "wreq"
       THEN IF WriteAvailable
            THEN /\ writer' = h
                 /\ pc' = [pc EXCEPT ![h] = Held(pc[h])]
                 /\ UNCHANGED <<readers, waiters>>
            ELSE /\ waiters' = Append(waiters, h)
                 /\ pc' = [pc EXCEPT ![h] = Waiting(pc[h])]
                 /\ UNCHANGED <<writer, readers>>
       ELSE IF ReadAvailable
            THEN /\ readers' = readers \cup {h}
                 /\ pc' = [pc EXCEPT ![h] = Held(pc[h])]
                 /\ UNCHANGED <<writer, waiters>>
            ELSE /\ waiters' = Append(waiters, h)
                 /\ pc' = [pc EXCEPT ![h] = Waiting(pc[h])]
                 /\ UNCHANGED <<writer, readers>>
    /\ UNCHANGED <<txs, localVars, fsVars, uuids, started, faults, histVars>>


\* ------------------------------------------------------------------ requests
\* The next request arrives and its handler starts
Accept(h) ==
    /\ pc[h] = "idle"
    /\ h = started + 1
    /\ started' = started + 1
    /\ overlap' = [g \in Handlers |->
                     IF g = h THEN \E k \in Handlers : k # h /\ Active(k)
                     ELSE IF Active(g) THEN TRUE ELSE overlap[g]]

\* A faulty NewV4: the Uuid handed out before, again
NewV4Stale == uuids

\* Uuid::new_v4(): a Uuid that no record and no request has yet
NewV4 == uuids + 1

\* create_transaction's "basic validation"
CreateValid(payload) ==
    /\ ~(Trim(payload.user) = <<>> \/ Trim(payload.item) = <<>>)
    /\ is_finite(payload.amount)

\* A faulty CreateTx: user and item stored as they came, untrimmed
CreateTxUntrimmed(i, payload, now) ==
    Transaction(i, payload.user, payload.item, payload.amount,
                IF payload.timestamp = None THEN now ELSE payload.timestamp[1])

\* create_transaction's `let tx = Transaction { .. }`
CreateTx(i, payload, now) ==
    Transaction(i, Trim(payload.user), Trim(payload.item), payload.amount,
                IF payload.timestamp = None THEN now ELSE payload.timestamp[1])

\* create_transaction up to the write guard: validation and the new record
CreateInvoke(h) ==
    /\ Accept(h)
    /\ \E payload \in CreatePayloads, now \in NowValues :
         IF ~CreateValid(payload)
         THEN /\ pc' = [pc EXCEPT ![h] = "done"]
              /\ result' = [result EXCEPT ![h] = Response("BadRequest", <<>>)]
              /\ UNCHANGED <<tx, uuids>>
         ELSE /\ tx' = [tx EXCEPT ![h] = <<CreateTx(NewV4, payload, now)>>]
              /\ uuids' = uuids + 1
              /\ pc' = [pc EXCEPT ![h] = "wreq"]
              /\ UNCHANGED result
    /\ op' = [op EXCEPT ![h] = "create"]
    /\ UNCHANGED <<txs, lockVars, id, user, updPayload, snapshot, fd, wpos, perr, fsVars,
                   faults,
                   file0, hist, seq, order, ioErrs>>

\* A faulty CreatePush: the record inserted at the front
CreatePushFront(h) ==
    /\ pc[h] = "wheld"
    /\ op[h] = "create"
    /\ txs' = <<tx[h][1]>> \o txs
    /\ Release(h, "p_rreq")
    /\ hist' = Append(hist, txs')
    /\ seq' = [seq EXCEPT ![h] = Len(hist')]
    /\ UNCHANGED <<localVars, fsVars, uuids, started, faults,
                   file0, order, ioErrs, overlap>>

\* write_guard.push(tx.clone()), and the guard dropped
CreatePush(h) ==
    /\ pc[h] = "wheld"
    /\ op[h] = "create"
    /\ txs' = Append(txs, tx[h][1])
    /\ Release(h, "p_rreq")
    /\ hist' = Append(hist, txs')
    /\ seq' = [seq EXCEPT ![h] = Len(hist')]
    /\ UNCHANGED <<localVars, fsVars, uuids, started, faults,
                   file0, order, ioErrs, overlap>>

\* The handlers that take an id from the path: Uuid::parse_str, then the lock
PathInvoke(h, o, first) ==
    /\ Accept(h)
    /\ \E p \in PathInputs :
         IF ParseStr(p).ok
         THEN /\ id' = [id EXCEPT ![h] = ParseStr(p).val]
              /\ pc' = [pc EXCEPT ![h] = first]
              /\ UNCHANGED result
         ELSE /\ pc' = [pc EXCEPT ![h] = "done"]
              /\ result' = [result EXCEPT ![h] = Response("BadRequest", <<>>)]
              /\ UNCHANGED id
    /\ op' = [op EXCEPT ![h] = o]
    /\ UNCHANGED <<txs, lockVars, user, tx, updPayload, snapshot, fd, wpos, perr, fsVars,
                   uuids, faults,
                   file0, hist, seq, order, ioErrs>>

UpdateInvoke(h) == PathInvoke(h, "update", "wreq")
DeleteInvoke(h) == PathInvoke(h, "delete", "wreq")
GetInvoke(h) == PathInvoke(h, "get", "rreq")

\* iter().find(|t| t.id == i): the index of the first record with that id, or 0
Find(c, i) ==
    IF \E k \in 1..Len(c) : c[k].id = i
    THEN CHOOSE k \in 1..Len(c) : c[k].id = i /\ \A j \in 1..(k - 1) : c[j].id # i
    ELSE 0

\* A faulty UpdateFields: the item assigned as it came, untrimmed
UpdateFieldsUntrimmed(t, p) ==
    LET badUser == p.user # None /\ Trim(p.user[1]) = <<>>
        t1 == IF p.user # None /\ ~badUser THEN [t EXCEPT !.user = Trim(p.user[1])] ELSE t
        badItem == p.item # None /\ Trim(p.item[1]) = <<>>
        t2 == IF p.item # None /\ ~badItem THEN [t1 EXCEPT !.item = p.item[1]] ELSE t1
        badAmount == p.amount # None /\ ~is_finite(p.amount[1])
        t3 == IF p.amount # None /\ ~badAmount THEN [t2 EXCEPT !.amount = p.amount[1]] ELSE t2
        t4 == IF p.timestamp # None THEN [t3 EXCEPT !.timestamp = p.timestamp[1]] ELSE t3
    IN  IF badUser THEN [tx |-> t, err |-> "user"]
        ELSE IF badItem THEN [tx |-> t1, err |-> "item"]
        ELSE IF badAmount THEN [tx |-> t2, err |-> "amount"]
        ELSE [tx |-> t4, err |-> "none"]

\* The body of update's `if let Some(tx)`: the fields of the payload in turn, each
\* assigned as soon as it is validated; err names the check that returned early
UpdateFields(t, p) ==
    LET badUser == p.user # None /\ Trim(p.user[1]) = <<>>
        t1 == IF p.user # None /\ ~badUser THEN [t EXCEPT !.user = Trim(p.user[1])] ELSE t
        badItem == p.item # None /\ Trim(p.item[1]) = <<>>
        t2 == IF p.item # None /\ ~badItem THEN [t1 EXCEPT !.item = Trim(p.item[1])] ELSE t1
        badAmount == p.amount # None /\ ~is_finite(p.amount[1])
        t3 == IF p.amount # None /\ ~badAmount THEN [t2 EXCEPT !.amount = p.amount[1]] ELSE t2
        t4 == IF p.timestamp # None THEN [t3 EXCEPT !.timestamp = p.timestamp[1]] ELSE t3
    IN  IF badUser THEN [tx |-> t, err |-> "user"]
        ELSE IF badItem THEN [tx |-> t1, err |-> "item"]
        ELSE IF badAmount THEN [tx |-> t2, err |-> "amount"]
        ELSE [tx |-> t4, err |-> "none"]

\* update_transaction under the write guard
UpdateApply(h) ==
    /\ pc[h] = "wheld"
    /\ op[h] = "update"
    /\ \E p \in UpdatePayloads :
         LET k == Find(txs, id[h])
             u == UpdateFields(txs[k], p)
         IN  /\ updPayload' = [updPayload EXCEPT ![h] = <<p>>]
             /\ IF k = 0
                THEN /\ Release(h, "done")
                     /\ result' = [result EXCEPT ![h] = Response("NotFound", <<>>)]
                     /\ UNCHANGED <<txs, hist, seq>>
                ELSE /\ txs' = [txs EXCEPT ![k] = u.tx]
                     /\ hist' = IF txs' = txs /\ u.err # "none" THEN hist
                                ELSE Append(hist, txs')
                     /\ IF u.err = "none"
                        THEN /\ Release(h, "p_rreq")
                             /\ seq' = [seq EXCEPT ![h] = Len(hist')]
                             /\ UNCHANGED result
                        ELSE /\ Release(h, "done")
                             /\ result' = [result EXCEPT ![h] = Response("BadRequest", <<>>)]
                             /\ UNCHANGED seq
    /\ UNCHANGED <<op, id, user, tx, snapshot, fd, wpos, perr, fsVars, uuids, started, faults,
                   file0, order, ioErrs, overlap>>

\* A faulty Retain: the predicate inverted
RetainInverted(c, i) == SelectSeq(c, LAMBDA t : t.id = i)

\* write_guard.retain(|t| t.id != id)
Retain(c, i) == SelectSeq(c, LAMBDA t : t.id # i)

\* delete_transaction under the write guard
DeleteRetain(h) ==
    /\ pc[h] = "wheld"
    /\ op[h] = "delete"
    /\ LET initial_len == Len(txs) IN
       /\ txs' = Retain(txs, id[h])
       /\ IF Len(txs') = initial_len
          THEN /\ Release(h, "done")
               /\ result' = [result EXCEPT ![h] = Response("NotFound", <<>>)]
               /\ UNCHANGED <<hist, seq>>
          ELSE /\ Release(h, "p_rreq")
               /\ hist' = Append(hist, txs')
               /\ seq' = [seq EXCEPT ![h] = Len(hist')]
               /\ UNCHANGED result
    /\ UNCHANGED <<op, id, user, tx, updPayload, snapshot, fd, wpos, perr, fsVars, uuids,
                   started, faults,
                   file0, order, ioErrs, overlap>>


\* ------------------------------------------------------------------ persist
\* A faulty PersistSnapshot: the read guard lives until persist returns
PersistSnapshotHoldingGuard(h) ==
    /\ pc[h] = "p_rheld"
    /\ snapshot' = [snapshot EXCEPT ![h] = Serialize(txs)]
    /\ pc' = [pc EXCEPT ![h] = "p_open"]
    /\ UNCHANGED <<txs, lockVars, op, id, user, tx, updPayload, fd, wpos, perr, result,
                   fsVars, uuids,
                   started, faults, histVars>>

\* persist's first block: the snapshot serialized under the read guard, the guard dropped
PersistSnapshot(h) ==
    /\ pc[h] = "p_rheld"
    /\ snapshot' = [snapshot EXCEPT ![h] = Serialize(txs)]
    /\ Release(h, "p_open")
    /\ UNCHANGED <<txs, op, id, user, tx, updPayload, fd, wpos, perr, result, fsVars,
                   uuids, started,
                   faults, histVars>>

\* A faulty CreateResponse: persist's error dropped
CreateResponseSwallowed(ok, t) == [pc |-> "done", result |-> Response("Created", t)]

\* What the handler does with persist's io::Result
CreateResponse(ok, t) ==
    IF ok THEN [pc |-> "done", result |-> Response("Created", t)]
    ELSE [pc |-> "done", result |-> Response("InternalServerError", <<>>)]

UpdateAfterPersist(ok) ==
    IF ok THEN [pc |-> "rreq", result |-> NoResult]
    ELSE [pc |-> "done", result |-> Response("InternalServerError", <<>>)]

DeleteResponse(ok) ==
    IF ok THEN [pc |-> "done", result |-> Response("NoContent", <<>>)]
    ELSE [pc |-> "done", result |-> Response("InternalServerError", <<>>)]

AfterPersist(h, ok) ==
    CASE op[h] = "create" -> CreateResponse(ok, tx[h])
      [] op[h] = "update" -> UpdateAfterPersist(ok)
      [] OTHER -> DeleteResponse(ok)

\* persist returns to its handler
PersistReturn(h, ok) ==
    LET r == AfterPersist(h, ok) IN
    /\ pc' = [pc EXCEPT ![h] = r.pc]
    /\ result' = [result EXCEPT ![h] = r.result]
    /\ perr' = [perr EXCEPT ![h] = IF ok THEN "ok" ELSE "err"]
    /\ snapshot' = [snapshot EXCEPT ![h] = <<>>]
    /\ wpos' = [wpos EXCEPT ![h] = 0]
    /\ ioErrs' = IF ok THEN ioErrs ELSE ioErrs + 1

\* An I/O error of the environment
Fault ==
    /\ faults < MaxFaults
    /\ faults' = faults + 1

\* fs::write writes at the offset of its own open file: past the end it leaves a hole
WriteAt(data, off, chunk) ==
    LET padded == IF Len(data) < off
                  THEN data \o [i \in 1..(off - Len(data)) |-> Hole] ELSE data
        end == IF Len(padded) > off + Len(chunk) THEN Len(padded) ELSE off + Len(chunk)
    IN  [i \in 1..end |->
           IF i > off /\ i <= off + Len(chunk) THEN chunk[i - off] ELSE padded[i]]

\* fs::write, File::create: the temporary file created, or truncated when it exists
PersistOpen(h) ==
    /\ pc[h] = "p_open"
    /\ \/ /\ tmp' = FileOf(<<>>)
          /\ fd' = [fd EXCEPT ![h] = "tmp"]
          /\ pc' = [pc EXCEPT ![h] = "p_write"]
          /\ UNCHANGED <<snapshot, wpos, perr, result, faults, ioErrs>>
       \/ /\ Fault
          /\ PersistReturn(h, FALSE)
          /\ UNCHANGED <<tmp, fd>>
    /\ UNCHANGED <<txs, lockVars, op, id, user, tx, updPayload, file, uuids, started,
                   file0, hist, seq, order, overlap>>

\* What one write call of write_all can transfer of the `rest` tokens left: all of
\* them, or (the first call) only one
WriteSizes(off, rest) == IF off = 0 THEN {1, rest} ELSE {rest}

\* fs::write, write_all: one write call of n tokens; the file is closed after the last
PersistWrite(h) ==
    /\ pc[h] = "p_write"
    /\ \/ \E n \in WriteSizes(wpos[h], Len(snapshot[h]) - wpos[h]) :
            LET chunk == SubSeq(snapshot[h], wpos[h] + 1, wpos[h] + n)
                last == wpos[h] + n = Len(snapshot[h])
            IN  /\ tmp' = IF fd[h] = "tmp"
                          THEN FileOf(WriteAt(tmp.data, wpos[h], chunk)) ELSE tmp
                /\ file' = IF fd[h] = "file"
                           THEN FileOf(WriteAt(file.data, wpos[h], chunk)) ELSE file
                /\ wpos' = [wpos EXCEPT ![h] = wpos[h] + n]
                /\ fd' = [fd EXCEPT ![h] = IF last THEN "none" ELSE @]
                /\ pc' = [pc EXCEPT ![h] = IF last THEN "p_rename" ELSE @]
                /\ UNCHANGED <<snapshot, perr, result, faults, ioErrs>>
       \/ /\ Fault
          /\ PersistReturn(h, FALSE)
          /\ fd' = [fd EXCEPT ![h] = "none"]
          /\ UNCHANGED <<tmp, file>>
    /\ UNCHANGED <<txs, lockVars, op, id, user, tx, updPayload, uuids, started,
                   file0, hist, seq, order, overlap>>

\* fs::rename(tmp_path, file_path): the temporary file becomes the target, and the
\* files other persist calls still have open move with it
PersistRename(h) ==
    /\ pc[h] = "p_rename"
    /\ \/ /\ tmp.exists
          /\ file' = tmp
          /\ tmp' = Absent
          /\ fd' = [g \in Handlers |->
                      CASE fd[g] = "tmp" -> "file"
                        [] fd[g] = "file" -> "orphan"
                        [] OTHER -> fd[g]]
          /\ order' = Append(order, seq[h])
          /\ PersistReturn(h, TRUE)
          /\ UNCHANGED faults
       \/ /\ ~tmp.exists
          /\ PersistReturn(h, FALSE)
          /\ UNCHANGED <<tmp, file, fd, order, faults>>
       \/ /\ tmp.exists
          /\ Fault
          /\ PersistReturn(h, FALSE)
          /\ UNCHANGED <<tmp, file, fd, order>>
    /\ UNCHANGED <<txs, lockVars, op, id, user, tx, updPayload, uuids, started,
                   file0, hist, seq, overlap>>

\* ------------------------------------------------------------------ reads
\* update_transaction's lookup of the updated record after persist
UpdateLookup(h) ==
    /\ pc[h] = "rheld"
    /\ op[h] = "update"
    /\ LET k == Find(txs, id[h]) IN
       result' = [result EXCEPT ![h] =
                    IF k = 0 THEN Response("panic", <<>>) ELSE Response("Ok", <<txs[k]>>)]
    /\ Release(h, "done")
    /\ UNCHANGED <<txs, op, id, user, tx, updPayload, snapshot, fd, wpos, perr, fsVars,
                   uuids, started,
                   faults, histVars>>

ListInvoke(h) ==
    /\ Accept(h)
    /\ op' = [op EXCEPT ![h] = "list"]
    /\ pc' = [pc EXCEPT ![h] = "rreq"]
    /\ UNCHANGED <<txs, lockVars, id, user, tx, updPayload, snapshot, fd, wpos, perr,
                   result, fsVars,
                   uuids, faults, file0, hist, seq, order, ioErrs>>

\* list_transactions under the read guard
ListRead(h) ==
    /\ pc[h] = "rheld"
    /\ op[h] = "list"
    /\ result' = [result EXCEPT ![h] = Response("Ok", txs)]
    /\ Release(h, "done")
    /\ seq' = [seq EXCEPT ![h] = Len(hist)]
    /\ UNCHANGED <<txs, op, id, user, tx, updPayload, snapshot, fd, wpos, perr, fsVars,
                   uuids, started,
                   faults,
                   file0, hist, order, ioErrs, overlap>>

\* get_transaction under the read guard
GetRead(h) ==
    /\ pc[h] = "rheld"
    /\ op[h] = "get"
    /\ LET k == Find(txs, id[h]) IN
       result' = [result EXCEPT ![h] =
                    IF k = 0 THEN Response("NotFound", <<>>) ELSE Response("Ok", <<txs[k]>>)]
    /\ Release(h, "done")
    /\ seq' = [seq EXCEPT ![h] = Len(hist)]
    /\ UNCHANGED <<txs, op, id, user, tx, updPayload, snapshot, fd, wpos, perr, fsVars,
                   uuids, started,
                   faults,
                   file0, hist, order, ioErrs, overlap>>

SummaryInvoke(h) ==
    /\ Accept(h)
    /\ \E u \in SummaryInputs : user' = [user EXCEPT ![h] = u]
    /\ op' = [op EXCEPT ![h] = "summary"]
    /\ pc' = [pc EXCEPT ![h] = "rreq"]
    /\ UNCHANGED <<txs, lockVars, id, tx, updPayload, snapshot, fd, wpos, perr, result, fsVars,
                   uuids, faults, file0, hist, seq, order, ioErrs>>

\* iter().map(|t| t.amount).sum()
RECURSIVE SumAmounts(_)
SumAmounts(c) == IF c = <<>> THEN 0 ELSE Head(c).amount.val + SumAmounts(Tail(c))

\* A faulty SummaryRead: the path parameter trimmed before it is compared
SummaryReadTrimmed(h) ==
    /\ pc[h] = "rheld"
    /\ op[h] = "summary"
    /\ LET user_txs == SelectSeq(txs, LAMBDA t : t.user = Trim(user[h])) IN
       result' = [result EXCEPT ![h] =
                    [status |-> "Ok", body |-> user_txs,
                     count |-> Len(user_txs), total |-> SumAmounts(user_txs)]]
    /\ Release(h, "done")
    /\ seq' = [seq EXCEPT ![h] = Len(hist)]
    /\ UNCHANGED <<txs, op, id, user, tx, updPayload, snapshot, fd, wpos, perr, fsVars,
                   uuids, started, faults, file0, hist, order, ioErrs, overlap>>

\* user_summary under the read guard
SummaryRead(h) ==
    /\ pc[h] = "rheld"
    /\ op[h] = "summary"
    /\ LET user_txs == SelectSeq(txs, LAMBDA t : t.user = user[h]) IN
       result' = [result EXCEPT ![h] =
                    [status |-> "Ok", body |-> user_txs,
                     count |-> Len(user_txs), total |-> SumAmounts(user_txs)]]
    /\ Release(h, "done")
    /\ seq' = [seq EXCEPT ![h] = Len(hist)]
    /\ UNCHANGED <<txs, op, id, user, tx, updPayload, snapshot, fd, wpos, perr, fsVars,
                   uuids, started,
                   faults,
                   file0, hist, order, ioErrs, overlap>>

Next ==
    \E h \in Handlers :
        \/ CreateInvoke(h)
        \/ UpdateInvoke(h)
        \/ DeleteInvoke(h)
        \/ GetInvoke(h)
        \/ ListInvoke(h)
        \/ SummaryInvoke(h)
        \/ LockAcquire(h)
        \/ CreatePush(h)
        \/ UpdateApply(h)
        \/ DeleteRetain(h)
        \/ PersistSnapshot(h)
        \/ PersistOpen(h)
        \/ PersistWrite(h)
        \/ PersistRename(h)
        \/ UpdateLookup(h)
        \/ ListRead(h)
        \/ GetRead(h)
        \/ SummaryRead(h)

Spec == Init /\ [][Next]_vars

\* The steps of handler h after its request was accepted
Step(h) ==
    \/ LockAcquire(h)
    \/ CreatePush(h)
    \/ UpdateApply(h)
    \/ DeleteRetain(h)
    \/ PersistSnapshot(h)
    \/ PersistOpen(h)
    \/ PersistWrite(h)
    \/ PersistRename(h)
    \/ UpdateLookup(h)
    \/ ListRead(h)
    \/ GetRead(h)
    \/ SummaryRead(h)

\* The tokio runtime polls every task that can go on, and every disk step ends; a
\* client need not send a request
FairSpec == Spec /\ \A h \in Handlers : WF_vars(Step(h))


\* ------------------------------------------------------------------ properties
Mutations == {"create", "update", "delete"}
Reads == {"list", "get", "summary"}
Quiescent == \A h \in Handlers : ~Active(h)
OnDisk(h) == pc[h] \in {"p_open", "p_write", "p_rename"}
Status(h) == result[h].status
Last(q) == q[Len(q)]

\* The effect of handler h's mutation is in Collection c
Effect(h, c) ==
    CASE op[h] = "create" -> Find(c, tx[h][1].id) # 0 /\ c[Find(c, tx[h][1].id)] = tx[h][1]
      [] op[h] = "update" -> Find(c, id[h]) # 0
      [] OTHER -> Find(c, id[h]) = 0

\* The response of read handler g is the one that Collection c gives
ReadOf(g, c) ==
    CASE op[g] = "list" -> Status(g) = "Ok" /\ result[g].body = c
      [] op[g] = "get" ->
           IF Find(c, id[g]) = 0 THEN Status(g) = "NotFound"
           ELSE Status(g) = "Ok" /\ result[g].body = <<c[Find(c, id[g])]>>
      [] OTHER ->
           /\ Status(g) = "Ok"
           /\ result[g].body = SelectSeq(c, LAMBDA t : t.user = user[g])

\* C1: the snapshot a mutation's persist serializes is the Collection as that mutation
\* left it when it dropped the write guard, and the snapshots are renamed over the
\* file in the order of the mutations.
C1_SnapshotIsOwnMutation ==
    /\ \A h \in Handlers : snapshot[h] # <<>> => snapshot[h] = Serialize(hist[seq[h]])
    /\ \A i, j \in 1..Len(order) : i < j => order[i] < order[j]

\* C2: the target file holds its startup content or the complete serialization of a
\* Collection that was in memory at some point, never a partial one.
C2_TargetNeverPartial ==
    \/ file = file0
    \/ /\ file.exists
       /\ \E i \in 1..Len(hist) : file.data = Serialize(hist[i])

\* C3: when no handler is running, a mutation has completed and no write or rename
\* has failed, the file is the serialization of the Collection in memory. (Stated
\* for the runs in which no request was rejected, which is all the less.)
C3_QuiescentFileIsCurrent ==
    ( /\ Quiescent
      /\ ioErrs = 0
      /\ \E h \in Handlers : op[h] \in Mutations /\ perr[h] = "ok"
      /\ \A h \in Handlers : Status(h) \notin {"BadRequest", "NotFound", "panic"} )
    => file = FileOf(Serialize(txs))

\* C4: when the persist of a mutation fails, the Collection keeps the mutation (the
\* memory is never rolled back), the caller gets InternalServerError, and the reads
\* that come after it answer from a Collection that has the mutation.
C4_PersistFailureKeepsMutation ==
    /\ txs = Last(hist)
    /\ \A h \in Handlers :
         perr[h] = "err" =>
           /\ pc[h] = "done"
           /\ Status(h) = "InternalServerError"
           /\ seq[h] \in 2..Len(hist)
           /\ Effect(h, hist[seq[h]])
           /\ \A g \in Handlers :
                (op[g] \in Reads /\ pc[g] = "done" /\ seq[g] >= seq[h])
                => ReadOf(g, hist[seq[g]])

C4_Witness ==
    \E h, g \in Handlers :
        /\ perr[h] = "err" /\ op[h] = "create"
        /\ op[g] = "list" /\ pc[g] = "done" /\ seq[g] = seq[h]
        /\ Find(result[g].body, tx[h][1].id) # 0

\* C5: a mutation that runs alone after a mutation whose persist failed, and whose
\* own persist succeeds, leaves in the file the whole Collection of the memory.
FailedBefore(g, h) == op[g] \in Mutations /\ perr[g] = "err" /\ seq[g] < seq[h]
AloneAndSaved(h) ==
    /\ op[h] \in Mutations
    /\ perr[h] = "ok"
    /\ ~overlap[h]
    /\ Quiescent
    /\ seq[h] = Len(hist)
C5_NextPersistWritesWholeCollection ==
    \A h, g \in Handlers :
        (AloneAndSaved(h) /\ FailedBefore(g, h)) =>
          /\ file.exists
          /\ FromSlice(file.data).ok
          /\ FromSlice(file.data).val = txs

C5_Witness ==
    \E h, g \in Handlers :
        /\ AloneAndSaved(h) /\ FailedBefore(g, h)
        /\ op[g] = "create" /\ op[h] = "update"
        /\ Find(Load(file, TRUE).val, tx[g][1].id) # 0

\* C6: no handler panics: every finished handler has a value or one of
\* ValidationError, NotFound, PersistenceError.
C6_NoPanic ==
    \A h \in Handlers :
        pc[h] = "done" =>
          Status(h) \in {"Created", "Ok", "NoContent", "BadRequest", "NotFound",
                         "InternalServerError"}

\* C7: the ids of the Collection are pairwise distinct in every state, and the
\* update step leaves the id of every record as it is.
IdsDistinct(c) == \A i, j \in 1..Len(c) : i # j => c[i].id # c[j].id
UpdateKeepsIds ==
    \A h \in Handlers :
        (pc[h] = "wheld" /\ op[h] = "update" /\ pc'[h] # "wheld")
        => /\ Len(txs') = Len(txs)
           /\ \A k \in 1..Len(txs) : txs'[k].id = txs[k].id
C7_IdsDistinctAndImmutable == [](IdsDistinct(txs)) /\ [][UpdateKeepsIds]_vars

C7_Witness ==
    /\ Len(txs) >= 2
    /\ \E h \in Handlers : op[h] = "update" /\ Status(h) = "Ok"

\* C8: every record of the Collection has a non-empty trimmed user and item and a
\* finite amount.
ValidRecord(t) ==
    /\ t.user # <<>> /\ Trim(t.user) = t.user
    /\ t.item # <<>> /\ Trim(t.item) = t.item
    /\ is_finite(t.amount)
C8_RecordsValid == \A k \in 1..Len(txs) : ValidRecord(txs[k])

C8_Witness ==
    /\ Len(hist) = 3
    /\ \E h, g \in Handlers :
         /\ op[h] = "create" /\ Status(h) = "Created"
         /\ op[g] = "update" /\ Status(g) = "BadRequest" /\ id[g] = tx[h][1].id

\* C9 as stated: of the delete calls for an id that exists, exactly one answers with
\* success (the first one of two in sequence).
DeletesOf(d) == {h \in Handlers : op[h] = "delete" /\ id[h] = d /\ pc[h] # "idle"}
DeletesDone(d) ==
    /\ Find(hist[1], d) # 0
    /\ DeletesOf(d) # {}
    /\ \A h \in DeletesOf(d) : pc[h] = "done"
C9_ExactlyOneDeleteSucceeds ==
    \A d \in Uuids :
        DeletesDone(d) =>
          Cardinality({h \in DeletesOf(d) : Status(h) = "NoContent"}) = 1

\* C9 as amended: exactly one of the delete calls removes the record, and answers
\* with success or (its persist failed) InternalServerError; every other one answers
\* NotFound; of two calls in sequence the first is the one that removes; when nothing
\* but these deletes has run the Collection is the one before less that record.
Removers(d) == {h \in DeletesOf(d) : Status(h) \in {"NoContent", "InternalServerError"}}
C9_ExactlyOneDeleteRemoves ==
    \A d \in Uuids :
        DeletesDone(d) =>
          /\ Cardinality(Removers(d)) = 1
          /\ \A h \in DeletesOf(d) \ Removers(d) : Status(h) = "NotFound"
          /\ \A h \in Removers(d) : perr[h] = "ok" <=> Status(h) = "NoContent"
          /\ \A h, g \in DeletesOf(d) : (h < g /\ ~overlap[g]) => Status(g) = "NotFound"
          /\ (\A h \in Handlers : pc[h] # "idle" => h \in DeletesOf(d))
             => /\ Len(txs) = Len(hist[1]) - 1
                /\ txs = SelectSeq(hist[1], LAMBDA t : t.id # d)

C9_Witness ==
    \E h, g \in Handlers :
        /\ DeletesDone(1) /\ h \in DeletesOf(1) /\ g \in DeletesOf(1)
        /\ Status(h) = "InternalServerError" /\ Status(g) = "NotFound"
        /\ overlap[g]

\* C10: a handler whose persist is at its disk steps (open, write, rename) holds no
\* guard of the lock and waits for none, so the lock is as free for the others as
\* without it.
C10_NoGuardDuringDiskSteps ==
    \A h \in Handlers :
        OnDisk(h) =>
          /\ writer # h
          /\ h \notin readers
          /\ \A i \in 1..Len(waiters) : waiters[i] # h

C10_Witness ==
    \E h, g \in Handlers : pc[h] = "p_write" /\ wpos[h] > 0 /\ pc[g] = "wheld"


\* The handlers that hold the write guard, a read guard
Exclusive == {h \in Handlers : pc[h] = "wheld"}
Shared == {h \in Handlers : pc[h] \in {"rheld", "p_rheld"}}
PushedCreates == {h \in Handlers : op[h] = "create" /\ seq[h] > 0}

\* C11: at most one handler holds the write guard, and while one does no handler holds
\* a read guard (list, get, summary, persist's snapshot, update's lookup); no push is
\* lost: while no delete ran every created record is in the Collection, and after
\* creates only the Collection is the startup one plus every created record.
C11_ExclusiveAndNoPushLost ==
    /\ Cardinality(Exclusive) <= 1
    /\ Exclusive # {} => Shared = {}
    /\ Exclusive = (IF writer = NoHandler THEN {} ELSE {writer})
    /\ Shared = readers
    /\ (\A g \in Handlers : op[g] # "delete") =>
         \A h \in PushedCreates : Find(txs, tx[h][1].id) # 0
    /\ (\A g \in Handlers : op[g] \in {"create", "none"}) =>
         /\ Len(txs) = Len(hist[1]) + Cardinality(PushedCreates)
         /\ \A h \in PushedCreates : Effect(h, txs)

\* Two overlapping creates both answered 201, both records in the Collection
C11_Witness ==
    /\ \A h \in Handlers : op[h] = "create" /\ Status(h) = "Created"
    /\ \E h \in Handlers : overlap[h]
    /\ Len(txs) = Len(hist[1]) + MaxOps

\* A handler waits for the write guard that another one holds
C11_WriterWaits ==
    \E h, g \in Handlers : pc[h] = "wheld" /\ pc[g] = "wwait"


\* Handler h's persist takes a step of fs::write (the open, or a write call)
BeforeRenameStep(h) ==
    /\ pc[h] \in {"p_open", "p_write"}
    /\ (pc'[h] # pc[h] \/ wpos'[h] # wpos[h])

\* C12: no step of a persist before its rename (the open and the writes of the
\* temporary file) changes the target file, so a crash at any point before the rename
\* leaves the target as it was.
C12_TargetUnchangedBeforeRename ==
    [][\A h \in Handlers : BeforeRenameStep(h) => file' = file]_vars


\* Record t with the fields that payload p supplies, trimmed, and its other fields kept
Changed(t, p) ==
    [id |-> t.id,
     user |-> IF p.user = None THEN t.user ELSE Trim(p.user[1]),
     item |-> IF p.item = None THEN t.item ELSE Trim(p.item[1]),
     amount |-> IF p.amount = None THEN t.amount ELSE p.amount[1],
     timestamp |-> IF p.timestamp = None THEN t.timestamp ELSE p.timestamp[1]]

\* The updates that passed every check under the write guard
UpdatesApplied == {h \in Handlers : op[h] = "update" /\ seq[h] > 0}

\* C13: an update that passes its checks changes exactly the fields its request
\* supplies, to the trimmed values, keeps the other fields of the record and every
\* other record, and a get of that id (and the update's own response) before any other
\* change of the Collection returns the record with those changes.
C13_UpdateChangesSuppliedFieldsOnly ==
    \A h \in UpdatesApplied :
        LET before == hist[seq[h] - 1]
            after == hist[seq[h]]
            k == Find(before, id[h])
            p == updPayload[h][1]
        IN  /\ k # 0
            /\ Len(after) = Len(before)
            /\ after[k] = Changed(before[k], p)
            /\ \A j \in 1..Len(before) : j # k => after[j] = before[j]
            /\ (Status(h) = "Ok" /\ seq[h] = Len(hist)) =>
                 result[h].body = <<Changed(before[k], p)>>
            /\ \A g \in Handlers :
                 (op[g] = "get" /\ id[g] = id[h] /\ pc[g] = "done" /\ seq[g] = seq[h]) =>
                   /\ Status(g) = "Ok"
                   /\ result[g].body = <<Changed(before[k], p)>>

\* An update that supplies the item only changed the record, and a get read it after
C13_Witness ==
    \E h \in UpdatesApplied, g \in Handlers :
        /\ updPayload[h][1].user = None
        /\ updPayload[h][1].item # None
        /\ hist[seq[h]] # hist[seq[h] - 1]
        /\ Status(h) = "Ok"
        /\ op[g] = "get" /\ id[g] = id[h] /\ seq[g] = seq[h] /\ Status(g) = "Ok"


\* The ids of Collection c, in its order
Ids(c) == [j \in 1..Len(c) |-> c[j].id]

\* Sequence q without its k-th element
Without(q, k) == SubSeq(q, 1, k - 1) \o SubSeq(q, k + 1, Len(q))

\* The delete handlers that removed a record
DeletesApplied == {h \in Handlers : op[h] = "delete" /\ seq[h] > 0}

\* C14: the Collection keeps insertion order: a create appends its record at the end,
\* an update leaves every record at its position, a delete removes the record with the
\* id and keeps the order of the others, no other step reorders, and list returns the
\* records in that order.
C14_InsertionOrderKept ==
    /\ txs = Last(hist)
    /\ \A h \in PushedCreates : hist[seq[h]] = Append(hist[seq[h] - 1], tx[h][1])
    /\ \A h \in UpdatesApplied : Ids(hist[seq[h]]) = Ids(hist[seq[h] - 1])
    /\ \A h \in DeletesApplied :
         \E k \in 1..Len(hist[seq[h] - 1]) :
            /\ hist[seq[h] - 1][k].id = id[h]
            /\ hist[seq[h]] = Without(hist[seq[h] - 1], k)
    /\ \A i \in 2..Len(hist) :
         \/ Ids(hist[i]) = Ids(hist[i - 1])
         \/ \E u \in Uuids : Ids(hist[i]) = Append(Ids(hist[i - 1]), u)
         \/ \E k \in 1..Len(hist[i - 1]) : hist[i] = Without(hist[i - 1], k)
    /\ \A g \in Handlers :
         (op[g] = "list" /\ pc[g] = "done") => result[g].body = hist[seq[g]]

\* A delete removed the middle one of three records: a created record stays behind the
\* older stored one
C14_Witness ==
    \E h \in DeletesApplied :
        /\ Len(hist[seq[h] - 1]) = 3
        /\ hist[seq[h] - 1][2].id = id[h]
        /\ \E g \in PushedCreates : hist[seq[h]][2] = tx[g][1]

\* A list returned a created record behind the stored ones
C14_ListWitness ==
    \E g \in Handlers, h \in PushedCreates :
        /\ op[g] = "list" /\ pc[g] = "done"
        /\ Len(result[g].body) = 3
        /\ result[g].body[3] = tx[h][1]


\* C15: the server starts whatever the stored file is: with the empty Collection when
\* the file is absent or does not parse, with the empty Collection or the parsed one
\* (empty when reading failed) when it parses; the file stays as it was until the
\* first rename of a persist, so before the first mutation.
C15_StartupNeverFailsOnFile ==
    /\ \A h \in Handlers : pc[h] # "down"
    /\ (~file0.exists \/ ~FromSlice(file0.data).ok) => hist[1] = <<>>
    /\ hist[1] \in {<<>>, FromSlice(file0.data).val}
    /\ Len(hist) = 1 => txs = hist[1]
    /\ order = <<>> => file = file0
    /\ Len(hist) = 1 => order = <<>>

\* The stored file parses but reading it failed: the server answers a list with the
\* empty Collection, the file untouched
C15_Witness ==
    /\ file0.exists
    /\ FromSlice(file0.data).ok
    /\ FromSlice(file0.data).val # <<>>
    /\ file = file0
    /\ \E g \in Handlers : op[g] = "list" /\ Status(g) = "Ok" /\ result[g].body = <<>>

\* The stored file does not parse: the server answers a list with the empty Collection
C15_UnparseableWitness ==
    /\ file0.exists
    /\ ~FromSlice(file0.data).ok
    /\ file = file0
    /\ \E g \in Handlers : op[g] = "list" /\ Status(g) = "Ok" /\ result[g].body = <<>>


\* Handler h's persist returned Ok, no other request ran during h's, and nothing was
\* renamed over the file or written into it since
PersistedLast(h) ==
    /\ op[h] \in Mutations
    /\ perr[h] = "ok"
    /\ ~overlap[h]
    /\ order # <<>> /\ Last(order) = seq[h]
    /\ \A g \in Handlers : fd[g] # "file"

Matching(c, u) == {k \in 1..Len(c) : c[k].user = u}

\* The records of c at the positions S, in the order of c
RECURSIVE Pick(_, _, _)
Pick(c, S, k) ==
    IF k > Len(c) THEN <<>>
    ELSE (IF k \in S THEN <<c[k]>> ELSE <<>>) \o Pick(c, S, k + 1)

\* The sum of the amounts of c at the positions S
RECURSIVE Total(_, _)
Total(c, S) ==
    IF S = {} THEN 0
    ELSE LET k == CHOOSE j \in S : TRUE IN c[k].amount.val + Total(c, S \ {k})

\* The summary handlers that have answered
SummariesDone == {g \in Handlers : op[g] = "summary" /\ pc[g] = "done"}

\* The response of summary handler g is the one that Collection c gives
SummaryOf(g, c) ==
    LET S == Matching(c, user[g]) IN
    /\ Status(g) = "Ok"
    /\ result[g].body = Pick(c, S, 1)
    /\ result[g].count = Cardinality(S)
    /\ result[g].total = Total(c, S)
    /\ S = {} => (result[g].body = <<>> /\ result[g].count = 0 /\ result[g].total = 0)

\* A step of handler g itself, serving a summary
SummaryStep(g) ==
    /\ op'[g] = "summary"
    /\ pc[g] \in {"idle", "rreq", "rheld"}
    /\ pc'[g] # pc[g]

\* C17: a summary returns exactly the records whose user equals the path parameter as
\* it came (no trimming), in Collection order, their number as count and the sum of
\* their amounts as total (empty, 0 and 0 when none matches), and no step of a summary
\* changes the Collection or the files.
C17_SummaryExactAndReadOnly ==
    /\ [](\A g \in SummariesDone : SummaryOf(g, hist[seq[g]]))
    /\ [][\A g \in Handlers :
             SummaryStep(g) => (txs' = txs /\ file' = file /\ tmp' = tmp)]_vars

\* A summary picked two records of three and summed their amounts
C17_Witness ==
    \E g \in SummariesDone :
        /\ Len(hist[seq[g]]) = 3
        /\ result[g].count = 2
        /\ result[g].total = hist[seq[g]][2].amount.val + hist[seq[g]][3].amount.val

\* A summary for " b " matched nothing although user "b" has a record
C17_NoneWitness ==
    \E g \in SummariesDone :
        /\ result[g].count = 0
        /\ Matching(hist[seq[g]], Trim(user[g])) # {}


\* This step gives mutation handler h its 400 or 404 response
Rejects(h) ==
    /\ op'[h] \in Mutations
    /\ Status(h) = "none"
    /\ result'[h].status \in {"BadRequest", "NotFound"}

\* C18: a create, update or delete answered 400 or 404 leaves the Collection and the
\* files as they were and ends without a persist.
C18_RejectedChangesNothing ==
    [][\A h \in Handlers :
          Rejects(h) => (txs' = txs /\ file' = file /\ tmp' = tmp /\ pc'[h] = "done")]_vars


\* C19: while the file system injects no error, no create, update or delete is
\* answered 500 and no persist returns an error, however the persists overlap.
C19_NoPersistenceErrorWithoutFault ==
    faults = 0 =>
        \A h \in Handlers : Status(h) # "InternalServerError" /\ perr[h] # "err"


\* Handler h holds a guard of the lock, waits in the lock's queue, asks for a guard
HoldsGuard(h) == writer = h \/ h \in readers
WaitsForGuard(h) == \E i \in 1..Len(waiters) : waiters[i] = h
AsksForGuard(h) == pc[h] \in {"wreq", "rreq", "p_rreq"}

\* No handler asks or waits for a guard while it holds one, and every handler that is
\* done has dropped its guard
GuardsReleased ==
    \A h \in Handlers :
        /\ (AsksForGuard(h) \/ WaitsForGuard(h)) => ~HoldsGuard(h)
        /\ ~Active(h) => (~HoldsGuard(h) /\ ~WaitsForGuard(h))

\* Every handler that has not finished can take a step, or waits for a guard that
\* another handler holds
NoDeadlock ==
    \A h \in Handlers :
        Active(h) =>
          \/ ENABLED Step(h)
          \/ WaitsForGuard(h) /\ \E g \in Handlers : g # h /\ HoldsGuard(g) /\ ENABLED Step(g)

\* Handler h has returned a response to its client
Returned(h) == pc[h] = "done" /\ Status(h) \notin {"none", "panic"}

\* Under fair scheduling every accepted handler finishes, by a response or by a panic
EveryHandlerFinishes == \A h \in Handlers : Active(h) ~> pc[h] = "done"

\* C20: no state is a deadlock, every handler drops the guard it took on every path
\* out of its locked section, no handler waits for a guard while it holds one, and
\* every operation that ends has returned a response.
C20_NoDeadlockAndEveryOperationReturns ==
    /\ GuardsReleased
    /\ NoDeadlock
    /\ \A h \in Handlers : pc[h] = "done" => Returned(h)
====
